---- MODULE Spec2Model ----
(***************************************************************************)
(* Wire-boundary layer of parsec-interface: the response header codec      *)
(* (requests/response/response_header.rs) and the import-key body          *)
(* conversions (operations_protobuf/convert_import_key.rs).                *)
(*                                                                         *)
(* Integers of the wire format are kept as numbers and laid out in bytes   *)
(* little-endian with fixed width, as bincode does.  TLC's integers are    *)
(* 32-bit signed, so the values drawn for the 32- and 64-bit fields stay   *)
(* below 2^31; their byte layout is still the full field width.            *)
(***************************************************************************)
EXTENDS Integers, Sequences, FiniteSets, TLC

VARIABLES
    stream,     \* bytes of the stream not yet consumed by the reader
    input,      \* every byte ever put on the stream (history)
    consumed,   \* number of bytes the reader has taken from the stream
    mark,       \* value of consumed when the last read_from_stream began
    sent,       \* frames written with write_to_stream, in order
    res,        \* result of the last read_from_stream: Result<Raw>
    native,     \* result of the last ResponseHeader::try_from
    rcvd,       \* Raw headers returned Ok by read_from_stream, in order
    pc,         \* position of the reader
    kpc,        \* position of the import-key conversion pipeline
    kin,        \* import-key value given to the conversion
    kproto,     \* protobuf-side value (OperationProto / ResultProto)
    kbody,      \* serialized body produced by the converter
    kout        \* result of the conversion back to the native type

hvars == <<stream, input, consumed, mark, sent, res, native, rcvd, pc>>
kvars == <<kpc, kin, kproto, kbody, kout>>
vars == <<stream, input, consumed, mark, sent, res, native, rcvd, pc,
          kpc, kin, kproto, kbody, kout>>

---------------------------------------------------------------------------
(* Result<T, ResponseStatus> and Option<T> *)

Ok(v) == [ok |-> TRUE, val |-> v]
Err(e) == [ok |-> FALSE, err |-> e]
None == <<>>
Some(v) == <<v>>

---------------------------------------------------------------------------
(* Constants and enumerations of crate::requests *)

MAGIC_NUMBER == 1589683984          \* 0x5EC0A710

RESPONSE_HDR_SIZE == 20             \* encoded size of Raw

\* ProviderID, with its wire code
ProviderID == [Core |-> 0, MbedCrypto |-> 1, Pkcs11 |-> 2, Tpm |-> 3]

\* BodyType, with its wire code
BodyType == [Protobuf |-> 0]

\* Opcode, with its wire code
Opcode == [Ping |-> 1, CreateKey |-> 2, DestroyKey |-> 3, AsymSign |-> 4,
           AsymVerify |-> 5, ImportKey |-> 6, ExportPublicKey |-> 7,
           ListProviders |-> 8, ListOpcodes |-> 9]

\* ResponseStatus, with its wire code
ResponseStatus == [Success |-> 0, WrongProviderID |-> 1,
                   ContentTypeNotSupported |-> 2,
                   AcceptTypeNotSupported |-> 3,
                   WireProtocolVersionNotSupported |-> 4,
                   ProviderNotRegistered |-> 5, ProviderDoesNotExist |-> 6,
                   DeserializingBodyFailed |-> 7,
                   SerializingBodyFailed |-> 8, OpcodeDoesNotExist |-> 9,
                   ResponseTooLarge |-> 10, ConnectionError |-> 15,
                   InvalidEncoding |-> 16, InvalidHeader |-> 17,
                   PsaErrorGenericError |-> 1132,
                   PsaErrorInvalidArgument |-> 1135]

\* FromPrimitive::from_u8 / from_u16 of an enumeration: the variant whose
\* code is c, None when no variant has that code.
FromPrimitive(enum, c) ==
    IF \E v \in DOMAIN enum : enum[v] = c
    THEN Some(CHOOSE v \in DOMAIN enum : enum[v] = c)
    ELSE None

\* From<std::io::Error> for ResponseStatus: the propagated I/O failure.
IoFailure == "ConnectionError"

---------------------------------------------------------------------------
(* bincode: fixed-width little-endian integers *)

RECURSIVE ToLE(_, _)
ToLE(n, w) == IF w = 0 THEN <<>> ELSE <<n % 256>> \o ToLE(n \div 256, w - 1)

RECURSIVE FromLE(_)
FromLE(s) == IF s = <<>> THEN 0 ELSE s[1] + 256 * FromLE(Tail(s))

\* bincode::serialize(&Raw): the fields in declaration order
serialize_Raw(r) ==
    ToLE(r.version_maj, 1) \o ToLE(r.version_min, 1) \o ToLE(r.provider, 1)
    \o ToLE(r.session, 8) \o ToLE(r.content_type, 1) \o ToLE(r.body_len, 4)
    \o ToLE(r.opcode, 2) \o ToLE(r.status, 2)

\* bincode::deserialize::<Raw>(&bytes), bytes of length RESPONSE_HDR_SIZE
deserialize_Raw(b) ==
    [version_maj  |-> FromLE(SubSeq(b, 1, 1)),
     version_min  |-> FromLE(SubSeq(b, 2, 2)),
     provider     |-> FromLE(SubSeq(b, 3, 3)),
     session      |-> FromLE(SubSeq(b, 4, 11)),
     content_type |-> FromLE(SubSeq(b, 12, 12)),
     body_len     |-> FromLE(SubSeq(b, 13, 16)),
     opcode       |-> FromLE(SubSeq(b, 17, 18)),
     status       |-> FromLE(SubSeq(b, 19, 20))]

---------------------------------------------------------------------------
(* std::io::Read on the stream *)

Drop(s, n) == SubSeq(s, n + 1, Len(s))

\* Read::read_exact of n bytes: the bytes and the rest of the stream, or a
\* failure when the stream ends (or fails) first; how many bytes a failed
\* read has taken is unspecified.
read_exact(s, n) ==
    IF Len(s) >= n
    THEN {[ok |-> TRUE, bytes |-> SubSeq(s, 1, n), rest |-> Drop(s, n)]}
    ELSE {[ok |-> FALSE, bytes |-> <<>>, rest |-> Drop(s, k)] : k \in 0..Len(s)}

\* get_from_stream!(stream, uN): read_exact of size_of::<uN>() bytes, then
\* bincode::deserialize; a failed read returns early with the I/O failure.
get_from_stream(s, w) ==
    {[ok |-> r.ok, val |-> FromLE(r.bytes), rest |-> r.rest] : r \in read_exact(s, w)}

---------------------------------------------------------------------------
(* Raw::write_to_stream and Raw::read_from_stream *)

\* the bytes write_to_stream appends to the stream
write_to_stream(raw) ==
    ToLE(MAGIC_NUMBER, 4) \o ToLE(RESPONSE_HDR_SIZE, 2) \o serialize_Raw(raw)

\* BadHeader without the comparison of the magic number
BadHeader_size_only(magic_number, hdr_size) ==
    hdr_size # RESPONSE_HDR_SIZE

\* BadHeader comparing only the low byte of the header size
BadHeader_low_byte(magic_number, hdr_size) ==
    magic_number # MAGIC_NUMBER \/ hdr_size % 256 # RESPONSE_HDR_SIZE

\* line 87: the structural check of magic number and header size
BadHeader(magic_number, hdr_size) ==
    magic_number # MAGIC_NUMBER \/ hdr_size # RESPONSE_HDR_SIZE

\* BadVersion with the two comparisons joined by "and"
BadVersion_both(raw_response) ==
    raw_response.version_maj # 1 /\ raw_response.version_min # 0

\* line 94: the wire protocol version check
BadVersion(raw_response) ==
    raw_response.version_maj # 1 \/ raw_response.version_min # 0

\* lines 93-98: deserialize the header bytes and check the version
decode_header(bytes) ==
    LET raw_response == deserialize_Raw(bytes)
    IN  IF BadVersion(raw_response)
        THEN Err("WireProtocolVersionNotSupported")
        ELSE Ok(raw_response)

\* read_header_body with a plain read: a short read leaves the rest of the
\* zeroed buffer as it is and decoding goes on
read_header_body_short(s, hdr_size) ==
    {[result |-> decode_header(SubSeq(s \o [i \in 1..hdr_size |-> 0], 1, hdr_size)),
      rest   |-> IF Len(s) >= hdr_size THEN Drop(s, hdr_size) ELSE <<>>]}

\* read_header_body that goes on to take the body_len bytes that follow
read_header_body_greedy(s, hdr_size) ==
    {IF b.ok
        THEN LET raw == deserialize_Raw(b.bytes)
                 n == IF raw.body_len < Len(b.rest) THEN raw.body_len ELSE Len(b.rest)
             IN  [result |-> decode_header(b.bytes), rest |-> Drop(b.rest, n)]
        ELSE [result |-> Err(IoFailure), rest |-> b.rest]
        : b \in read_exact(s, hdr_size)}

\* lines 90-98: read hdr_size bytes, then decode them
read_header_body(s, hdr_size) ==
    {IF b.ok THEN [result |-> decode_header(b.bytes), rest |-> b.rest]
             ELSE [result |-> Err(IoFailure), rest |-> b.rest]
        : b \in read_exact(s, hdr_size)}

\* read_from_stream reading the header bytes before it checks magic number
\* and header size
read_from_stream_eager(s) ==
    UNION {
        IF ~m.ok THEN {[result |-> Err(IoFailure), rest |-> m.rest]}
        ELSE UNION {
            IF ~h.ok THEN {[result |-> Err(IoFailure), rest |-> h.rest]}
            ELSE {IF ~b.ok THEN [result |-> Err(IoFailure), rest |-> b.rest]
                  ELSE IF BadHeader(m.val, h.val)
                       THEN [result |-> Err("InvalidHeader"), rest |-> b.rest]
                       ELSE [result |-> decode_header(b.bytes), rest |-> b.rest]
                    : b \in read_exact(h.rest, h.val)}
            : h \in get_from_stream(m.rest, 2)}
        : m \in get_from_stream(s, 4)}

\* The outcomes of read_from_stream on stream s: the result and what is left
\* of the stream.
read_from_stream(s) ==
    UNION {
        IF ~m.ok THEN {[result |-> Err(IoFailure), rest |-> m.rest]}
        ELSE UNION {
            IF ~h.ok THEN {[result |-> Err(IoFailure), rest |-> h.rest]}
            ELSE IF BadHeader(m.val, h.val)
                 THEN {[result |-> Err("InvalidHeader"), rest |-> h.rest]}
                 ELSE read_header_body(h.rest, h.val)
            : h \in get_from_stream(m.rest, 2)}
        : m \in get_from_stream(s, 4)}

---------------------------------------------------------------------------
(* ResponseHeader <-> Raw *)

\* try_from decoding the opcode before the provider and the content type
try_from_Raw_opcode_first(header) ==
    LET provider     == FromPrimitive(ProviderID, header.provider)
        content_type == FromPrimitive(BodyType, header.content_type)
        opcode       == FromPrimitive(Opcode, header.opcode)
        status       == FromPrimitive(ResponseStatus, header.status)
    IN  IF opcode = None THEN Err("OpcodeDoesNotExist")
        ELSE IF provider = None THEN Err("ProviderDoesNotExist")
        ELSE IF content_type = None THEN Err("ContentTypeNotSupported")
        ELSE IF status = None THEN Err("InvalidEncoding")
        ELSE Ok([version_maj  |-> header.version_maj,
                 version_min  |-> header.version_min,
                 provider     |-> provider[1],
                 session      |-> header.session,
                 content_type |-> content_type[1],
                 opcode       |-> opcode[1],
                 status       |-> status[1]])

\* TryFrom<Raw> for ResponseHeader
try_from_Raw(header) ==
    LET provider     == FromPrimitive(ProviderID, header.provider)
        content_type == FromPrimitive(BodyType, header.content_type)
        opcode       == FromPrimitive(Opcode, header.opcode)
        status       == FromPrimitive(ResponseStatus, header.status)
    IN  IF provider = None THEN Err("ProviderDoesNotExist")
        ELSE IF content_type = None THEN Err("ContentTypeNotSupported")
        ELSE IF opcode = None THEN Err("OpcodeDoesNotExist")
        ELSE IF status = None THEN Err("InvalidEncoding")
        ELSE Ok([version_maj  |-> header.version_maj,
                 version_min  |-> header.version_min,
                 provider     |-> provider[1],
                 session      |-> header.session,
                 content_type |-> content_type[1],
                 opcode       |-> opcode[1],
                 status       |-> status[1]])

\* from with the status cast to u8
from_ResponseHeader_status_u8(header) ==
    [version_maj  |-> header.version_maj,
     version_min  |-> header.version_min,
     provider     |-> ProviderID[header.provider],
     session      |-> header.session,
     content_type |-> BodyType[header.content_type],
     body_len     |-> 0,
     opcode       |-> Opcode[header.opcode],
     status       |-> ResponseStatus[header.status] % 256]

\* From<ResponseHeader> for Raw
from_ResponseHeader(header) ==
    [version_maj  |-> header.version_maj,
     version_min  |-> header.version_min,
     provider     |-> ProviderID[header.provider],
     session      |-> header.session,
     content_type |-> BodyType[header.content_type],
     body_len     |-> 0,
     opcode       |-> Opcode[header.opcode],
     status       |-> ResponseStatus[header.status]]

---------------------------------------------------------------------------
(* Import-key conversions (operations_protobuf/convert_import_key.rs) *)

\* TryFrom<KeyAttributes> for KeyAttributesProto: every nested structure
\* becomes a present sub-message.
key_attributes_to_proto(attrs) ==
    Ok([key_type   |-> Some(attrs.key_type),
        key_bits   |-> attrs.key_bits,
        key_policy |-> Some([key_usage_flags |-> Some(attrs.key_policy.key_usage_flags),
                             key_algorithm   |-> Some(attrs.key_policy.key_algorithm)])])

\* TryFrom<KeyAttributesProto> for KeyAttributes: fails with InvalidEncoding
\* when a required sub-message is absent.
key_attributes_from_proto(proto) ==
    IF proto.key_type = None \/ proto.key_policy = None
    THEN Err("InvalidEncoding")
    ELSE IF proto.key_policy[1].key_usage_flags = None
            \/ proto.key_policy[1].key_algorithm = None
    THEN Err("InvalidEncoding")
    ELSE Ok([key_type   |-> proto.key_type[1],
             key_bits   |-> proto.key_bits,
             key_policy |-> [key_usage_flags |-> proto.key_policy[1].key_usage_flags[1],
                             key_algorithm   |-> proto.key_policy[1].key_algorithm[1]]])

\* try_from filling absent attributes with a default instead of failing
proto_to_operation_default(proto_op) ==
    LET attributes ==
            IF proto_op.attributes = None
            THEN Ok([key_type |-> "RawData", key_bits |-> 0,
                     key_policy |-> [key_usage_flags |-> [export |-> FALSE, sign_hash |-> FALSE],
                                     key_algorithm |-> "None"]])
            ELSE key_attributes_from_proto(proto_op.attributes[1])
    IN  IF ~attributes.ok
        THEN Err(attributes.err)
        ELSE Ok([key_name   |-> proto_op.key_name,
                 attributes |-> attributes.val,
                 data       |-> proto_op.data])

\* TryFrom<OperationProto> for Operation
proto_to_operation(proto_op) ==
    IF proto_op.attributes = None
    THEN Err("InvalidEncoding")
    ELSE LET attributes == key_attributes_from_proto(proto_op.attributes[1])
         IN  IF ~attributes.ok
             THEN Err(attributes.err)
             ELSE Ok([key_name   |-> proto_op.key_name,
                      attributes |-> attributes.val,
                      data       |-> proto_op.data])

\* try_from leaving the key material out of the message
operation_to_proto_no_data(op) ==
    LET attributes == key_attributes_to_proto(op.attributes)
    IN  IF ~attributes.ok
        THEN Err(attributes.err)
        ELSE Ok([key_name   |-> op.key_name,
                 attributes |-> Some(attributes.val),
                 data       |-> <<>>])

\* TryFrom<Operation> for OperationProto
operation_to_proto(op) ==
    LET attributes == key_attributes_to_proto(op.attributes)
    IN  IF ~attributes.ok
        THEN Err(attributes.err)
        ELSE Ok([key_name   |-> op.key_name,
                 attributes |-> Some(attributes.val),
                 data       |-> op.data])

\* import_key::Result {} and its protobuf counterpart ResultProto {}
EmptyResult == [type |-> "Result"]

EmptyResultProto == [type |-> "ResultProto"]

\* TryFrom<ResultProto> for Result
proto_to_result(proto_op) == Ok(EmptyResult)

\* TryFrom<Result> for ResultProto
result_to_proto(op) == Ok(EmptyResultProto)

\* Protobuf encoding of an OperationProto: one tagged entry per field, fields
\* holding their default value (empty string, no sub-message, no bytes) left
\* out.
wire_encode(proto) ==
    (IF proto.key_name = "" THEN <<>>
     ELSE <<[field |-> 1, val |-> proto.key_name]>>)
    \o (IF proto.attributes = None THEN <<>>
        ELSE <<[field |-> 2, val |-> proto.attributes[1]]>>)
    \o (IF proto.data = <<>> THEN <<>>
        ELSE <<[field |-> 3, val |-> proto.data]>>)

\* Protobuf decoding: the default message with every entry of the body
\* applied in order.
RECURSIVE wire_decode_from(_, _)
wire_decode_from(msg, body) ==
    IF body = <<>> THEN msg
    ELSE LET e == Head(body)
         IN  wire_decode_from(
                 CASE e.field = 1 -> [msg EXCEPT !.key_name = e.val]
                   [] e.field = 2 -> [msg EXCEPT !.attributes = Some(e.val)]
                   [] e.field = 3 -> [msg EXCEPT !.data = e.val]
                   [] OTHER -> msg,
                 Tail(body))

wire_decode(body) ==
    wire_decode_from([key_name |-> "", attributes |-> None, data |-> <<>>], body)

\* ProtobufConverter::operation_to_body for NativeOperation::ImportKey
operation_to_body(op) ==
    LET proto == operation_to_proto(op)
    IN  IF proto.ok THEN Ok(wire_encode(proto.val)) ELSE Err(proto.err)

\* ProtobufConverter::body_to_operation for Opcode::ImportKey
body_to_operation(body) == proto_to_operation(wire_decode(body))

---------------------------------------------------------------------------
(* Bounds and input sets *)

MaxTail == 1        \* bytes that may follow a header on the stream

MaxFrames == 2      \* frames written back to back

MaxBody == 2        \* length of the body of a frame

Sessions == {0, 16909060}

BodyLens == {0, 1, 258, 2147483647}

\* native headers handed to the writer
NativeHeaders ==
    [version_maj: {0, 1}, version_min: {0, 1}, provider: DOMAIN ProviderID,
     session: Sessions, content_type: DOMAIN BodyType,
     opcode: DOMAIN Opcode, status: DOMAIN ResponseStatus]

\* raw header records a peer may put on the wire, valid or not
RawHeaders ==
    [version_maj: {0, 1, 2}, version_min: {0, 1}, provider: {0, 3, 4},
     session: Sessions, content_type: {0, 1}, body_len: {0, 2147483647},
     opcode: {0, 1, 6, 300}, status: {0, 1132, 999, 65535}]

\* first four bytes of a stream: the magic number, or not
Magics == {ToLE(MAGIC_NUMBER, 4), <<0, 0, 0, 0>>,
           ToLE(MAGIC_NUMBER + 1, 4), ToLE(MAGIC_NUMBER - 16777216, 4)}

\* declared header sizes
HdrSizes == {RESPONSE_HDR_SIZE, RESPONSE_HDR_SIZE - 1, RESPONSE_HDR_SIZE + 1,
             0, RESPONSE_HDR_SIZE + 256}

\* n bytes of filler
Fill(n, b) == [i \in 1..n |-> b]

Tails == {Fill(n, 16) : n \in 0..MaxTail}

---------------------------------------------------------------------------
(* The reader and its peers on one stream *)

NoRaw == Err("none")

HeaderStart(p) ==
    /\ stream = <<>>
    /\ input = <<>>
    /\ consumed = 0
    /\ mark = 0
    /\ sent = <<>>
    /\ res = NoRaw
    /\ native = NoRaw
    /\ rcvd = <<>>
    /\ pc = p

\* A peer puts a whole header on the stream, well formed or not, followed by
\* tail.
InjectHeader(magic, size, raw, tail) ==
    /\ pc = "idle"
    /\ stream' = magic \o ToLE(size, 2) \o serialize_Raw(raw) \o tail
    /\ input' = stream'
    /\ pc' = "read"
    /\ UNCHANGED <<consumed, mark, sent, res, native, rcvd>>

\* A peer puts the first cut bytes of a header on the stream and stops.
InjectTruncated(magic, size, raw, cut) ==
    /\ pc = "idle"
    /\ stream' = SubSeq(magic \o ToLE(size, 2) \o serialize_Raw(raw), 1, cut)
    /\ input' = stream'
    /\ pc' = "read"
    /\ UNCHANGED <<consumed, mark, sent, res, native, rcvd>>

\* The header as the caller sends it: Raw::from(header) with body_len set.
RawOf(header, body_len) ==
    [from_ResponseHeader(header) EXCEPT !.body_len = body_len]

\* The service writes header with body length body_len: Raw::from(header),
\* body_len overwritten, write_to_stream.
WriteHeader(header, body_len) ==
    /\ pc = "idle"
    /\ stream' = write_to_stream(RawOf(header, body_len))
    /\ input' = stream'
    /\ sent' = Append(sent, [header |-> header, body_len |-> body_len])
    /\ pc' = "read"
    /\ UNCHANGED <<consumed, mark, res, native, rcvd>>

\* The reader calls Raw::read_from_stream on the stream.
ReadFromStream ==
    /\ pc = "read"
    /\ \E o \in read_from_stream(stream) :
        /\ stream' = o.rest
        /\ consumed' = consumed + (Len(stream) - Len(o.rest))
        /\ mark' = consumed
        /\ res' = o.result
        /\ rcvd' = IF o.result.ok THEN Append(rcvd, o.result.val) ELSE rcvd
        /\ pc' = IF o.result.ok THEN "convert" ELSE "done"
    /\ UNCHANGED <<input, sent, native>>

\* The reader converts the Raw it got with ResponseHeader::try_from and goes
\* on to next.
TryFromRaw(next) ==
    /\ pc = "convert"
    /\ native' = try_from_Raw(res.val)
    /\ pc' = next
    /\ UNCHANGED <<stream, input, consumed, mark, sent, res, rcvd>>

KeyIdle ==
    /\ kpc = "off"
    /\ kin = None
    /\ kproto = None
    /\ kbody = None
    /\ kout = NoRaw

Init == HeaderStart("idle") /\ KeyIdle

\* the header a truncated stream is cut from
SampleRaw ==
    RawOf(CHOOSE h \in NativeHeaders : h.version_maj = 1 /\ h.version_min = 0, 1)

Next ==
    \/ /\ pc = "idle"
       /\ \E magic \in Magics, size \in HdrSizes, raw \in RawHeaders, tail \in Tails :
             InjectHeader(magic, size, raw, tail)
       /\ UNCHANGED kvars
    \/ /\ pc = "idle"
       /\ \E magic \in Magics, size \in HdrSizes, cut \in 0..(RESPONSE_HDR_SIZE + 5) :
             InjectTruncated(magic, size, SampleRaw, cut)
       /\ UNCHANGED kvars
    \/ /\ pc = "idle"
       /\ \E header \in NativeHeaders, body_len \in BodyLens :
             WriteHeader(header, body_len)
       /\ UNCHANGED kvars
    \/ ReadFromStream /\ UNCHANGED kvars
    \/ TryFromRaw("done") /\ UNCHANGED kvars

Spec == Init /\ [][Next]_vars

---------------------------------------------------------------------------
(* Frames written back to back: each a header and its body *)

\* headers of the frames the service writes
FrameHeaders ==
    {h \in NativeHeaders :
        /\ h.version_maj = 1
        /\ h.provider = "Core" /\ h.session = 0
        /\ h.opcode \in {"Ping", "ImportKey"}
        /\ h.status = "Success"}

\* The service writes one frame: the header with write_to_stream, then
\* body_len bytes of body.
WriteFrame(header, body_len) ==
    /\ Len(sent) < MaxFrames
    /\ stream' = stream \o write_to_stream(RawOf(header, body_len)) \o Fill(body_len, 16)
    /\ input' = input \o write_to_stream(RawOf(header, body_len)) \o Fill(body_len, 16)
    /\ sent' = Append(sent, [header |-> header, body_len |-> body_len])
    /\ UNCHANGED <<consumed, mark, res, native, rcvd, pc>>

\* The reader, blocked until bytes arrive, reads the next header.
ReadFrameHeader ==
    /\ stream # <<>>
    /\ ReadFromStream

\* The caller skips the body, using the body_len of the header it was given.
SkipBody ==
    /\ pc = "body"
    /\ Len(stream) >= res.val.body_len
    /\ stream' = Drop(stream, res.val.body_len)
    /\ consumed' = consumed + res.val.body_len
    /\ pc' = "read"
    /\ UNCHANGED <<input, mark, sent, res, native, rcvd>>

FramesInit == HeaderStart("read") /\ KeyIdle

FramesNext ==
    \/ /\ \E header \in FrameHeaders, body_len \in 0..MaxBody :
             WriteFrame(header, body_len)
       /\ UNCHANGED kvars
    \/ ReadFrameHeader /\ UNCHANGED kvars
    \/ TryFromRaw("body") /\ UNCHANGED kvars
    \/ SkipBody /\ UNCHANGED kvars

SpecFrames == FramesInit /\ [][FramesNext]_vars

---------------------------------------------------------------------------
(* The import-key conversions applied to native and wire-side values *)

KeyNames == {"", "k", "test name"}

KeyData == {<<>>, <<0>>, <<17, 34, 51>>}

UsageFlags == [export: BOOLEAN, sign_hash: BOOLEAN]

\* native KeyAttributes
KeyAttributes ==
    [key_type: {"RsaKeyPair", "RawData"}, key_bits: {0, 1024},
     key_policy: [key_usage_flags: UsageFlags,
                  key_algorithm: {"RsaPkcs1v15Sign_Sha1", "None"}]]

\* native import_key::Operation values
Operations == [key_name: KeyNames, attributes: KeyAttributes, data: KeyData]

\* KeyAttributesProto messages with a required sub-message missing
BrokenAttributes ==
    {[key_type |-> None, key_bits |-> 1024,
      key_policy |-> Some([key_usage_flags |-> Some([export |-> TRUE, sign_hash |-> TRUE]),
                           key_algorithm |-> Some("None")])],
     [key_type |-> Some("RsaKeyPair"), key_bits |-> 1024, key_policy |-> None],
     [key_type |-> Some("RsaKeyPair"), key_bits |-> 0,
      key_policy |-> Some([key_usage_flags |-> None,
                           key_algorithm |-> Some("None")])]}

\* OperationProto messages a peer may send that no Operation converts to
PeerProtos ==
    [key_name: KeyNames, attributes: {None}, data: KeyData]
    \cup [key_name: KeyNames, attributes: {Some(a) : a \in BrokenAttributes},
          data: KeyData]

KeyStart ==
    /\ kpc = "idle"
    /\ kin = None
    /\ kproto = None
    /\ kbody = None
    /\ kout = NoRaw

\* A native Operation is converted with OperationProto::try_from.
OperationToProto(op) ==
    /\ kpc = "idle"
    /\ kin' = Some(op)
    /\ kproto' = Some(operation_to_proto(op))
    /\ kpc' = "proto"
    /\ UNCHANGED <<kbody, kout>>

\* A peer supplies an OperationProto.
GivenProto(proto) ==
    /\ kpc = "idle"
    /\ kproto' = Some(Ok(proto))
    /\ kpc' = "proto"
    /\ UNCHANGED <<kin, kbody, kout>>

\* The OperationProto is converted with Operation::try_from.
ProtoToOperation ==
    /\ kpc = "proto"
    /\ kproto[1].ok
    /\ kout' = proto_to_operation(kproto[1].val)
    /\ kpc' = "done"
    /\ UNCHANGED <<kin, kproto, kbody>>

\* A native Result is converted with ResultProto::try_from.
ResultToProto ==
    /\ kpc = "idle"
    /\ kin' = Some(EmptyResult)
    /\ kproto' = Some(result_to_proto(EmptyResult))
    /\ kpc' = "rproto"
    /\ UNCHANGED <<kbody, kout>>

\* The ResultProto is converted with Result::try_from.
ProtoToResult ==
    /\ kpc = "rproto"
    /\ kproto[1].ok
    /\ kout' = proto_to_result(kproto[1].val)
    /\ kpc' = "done"
    /\ UNCHANGED <<kin, kproto, kbody>>

\* The converter serializes NativeOperation::ImportKey(op).
OperationToBody(op) ==
    /\ kpc = "idle"
    /\ kin' = Some(op)
    /\ kbody' = Some(operation_to_body(op))
    /\ kpc' = "body"
    /\ UNCHANGED <<kproto, kout>>

\* A peer supplies the body of an OperationProto.
GivenBody(proto) ==
    /\ kpc = "idle"
    /\ kproto' = Some(Ok(proto))
    /\ kbody' = Some(Ok(wire_encode(proto)))
    /\ kpc' = "body"
    /\ UNCHANGED <<kin, kout>>

\* The converter decodes the body with Opcode::ImportKey.
BodyToOperation ==
    /\ kpc = "body"
    /\ kbody[1].ok
    /\ kout' = body_to_operation(kbody[1].val)
    /\ kpc' = "done"
    /\ UNCHANGED <<kin, kproto, kbody>>

KeyInit == HeaderStart("idle") /\ KeyStart

KeyNext ==
    \/ /\ kpc = "idle"
       /\ \E op \in Operations : OperationToProto(op)
       /\ UNCHANGED hvars
    \/ /\ kpc = "idle"
       /\ \E proto \in PeerProtos : GivenProto(proto)
       /\ UNCHANGED hvars
    \/ ProtoToOperation /\ UNCHANGED hvars
    \/ ResultToProto /\ UNCHANGED hvars
    \/ ProtoToResult /\ UNCHANGED hvars
    \/ /\ kpc = "idle"
       /\ \E op \in Operations : OperationToBody(op)
       /\ UNCHANGED hvars
    \/ /\ kpc = "idle"
       /\ \E proto \in PeerProtos : GivenBody(proto)
       /\ UNCHANGED hvars
    \/ BodyToOperation /\ UNCHANGED hvars

SpecKey == KeyInit /\ [][KeyNext]_vars

---------------------------------------------------------------------------
(* Properties of the header codec *)

\* the bytes the last read_from_stream began on
Seen == Drop(input, mark)

\* read_from_stream has returned and its result is in res
HasRead == pc \in {"convert", "body", "done"}

MagicBytes == <<16, 167, 192, 94>>      \* 0x5EC0A710, little-endian

GoodMagic == Len(Seen) >= 4 /\ SubSeq(Seen, 1, 4) = MagicBytes

BadMagic == Len(Seen) >= 4 /\ SubSeq(Seen, 1, 4) # MagicBytes

GoodSize == Len(Seen) >= 6 /\ Seen[5] = RESPONSE_HDR_SIZE /\ Seen[6] = 0

BadSize == Len(Seen) >= 6 /\ ~(Seen[5] = RESPONSE_HDR_SIZE /\ Seen[6] = 0)

FullHeader == Len(Seen) >= 6 + RESPONSE_HDR_SIZE

GoodVersion == Len(Seen) >= 8 /\ Seen[7] = 1 /\ Seen[8] = 0

BadVersionBytes == Len(Seen) >= 8 /\ ~(Seen[7] = 1 /\ Seen[8] = 0)

Codes(enum) == {enum[v] : v \in DOMAIN enum}

\* C1: a native header with version (1,0), converted to Raw, given body
\* length L, written with write_to_stream and read back with
\* read_from_stream, is returned Ok with body_len = L, and try_from of the
\* Raw read back equals the header written in every field.
C1_HeaderRoundTrip ==
    (/\ HasRead
     /\ sent # <<>>
     /\ sent[1].header.version_maj = 1
     /\ sent[1].header.version_min = 0)
    => /\ res.ok
       /\ res.val.body_len = sent[1].body_len
       /\ (pc = "done" => native.ok /\ native.val = sent[1].header)

C1_Witness ==
    /\ pc = "done"
    /\ sent # <<>>
    /\ sent[1].header.status = "PsaErrorGenericError"
    /\ sent[1].header.provider = "Tpm"
    /\ sent[1].header.session = 16909060
    /\ sent[1].body_len = 2147483647
    /\ res.ok /\ res.val.body_len = 2147483647
    /\ native.ok /\ native.val = sent[1].header

\* C2 as stated: every stream whose first 4 bytes are not the magic number
\* is rejected with InvalidHeader, also one that ends before the header-size
\* field is complete.
C2_AnyBadMagicIsInvalidHeader ==
    (HasRead /\ BadMagic) => res = Err("InvalidHeader")

\* C2 amended: every stream of at least 6 bytes whose first 4 bytes are not
\* the magic number is rejected with InvalidHeader, whatever follows.
C2_BadMagicRejected ==
    (HasRead /\ BadMagic /\ Len(Seen) >= 6) => res = Err("InvalidHeader")

C2_Witness ==
    /\ pc = "done"
    /\ Len(Seen) = 6 + RESPONSE_HDR_SIZE + 1
    /\ SubSeq(Seen, 1, 3) = SubSeq(MagicBytes, 1, 3)
    /\ Seen[4] # MagicBytes[4]
    /\ GoodSize /\ GoodVersion
    /\ res = Err("InvalidHeader")

\* C3: every stream that starts with the magic number followed by a header
\* size other than RESPONSE_HDR_SIZE is rejected with InvalidHeader.
C3_BadSizeRejected ==
    (HasRead /\ GoodMagic /\ BadSize) => res = Err("InvalidHeader")

C3_Witness ==
    /\ pc = "done"
    /\ GoodMagic
    /\ Seen[5] = RESPONSE_HDR_SIZE /\ Seen[6] = 1
    /\ FullHeader /\ GoodVersion
    /\ res = Err("InvalidHeader")

\* C4: a full header with the magic number and the right size is rejected
\* with WireProtocolVersionNotSupported when its version is not (1,0) and is
\* returned Ok when it is; Ok is returned only for version (1,0); a full
\* header with a wrong magic number and a wrong version is InvalidHeader.
C4_VersionCheckedAfterStructure ==
    /\ (HasRead /\ GoodMagic /\ GoodSize /\ FullHeader)
        => IF GoodVersion
           THEN res.ok
           ELSE res = Err("WireProtocolVersionNotSupported")
    /\ (HasRead /\ res.ok)
        => GoodMagic /\ GoodSize /\ GoodVersion
           /\ res.val.version_maj = 1 /\ res.val.version_min = 0
    /\ (HasRead /\ FullHeader /\ BadMagic /\ BadVersionBytes)
        => res = Err("InvalidHeader")

C4_Witness ==
    /\ pc = "done"
    /\ GoodMagic /\ GoodSize /\ FullHeader
    /\ Seen[7] = 1 /\ Seen[8] = 1
    /\ res = Err("WireProtocolVersionNotSupported")

\* the error try_from must report for Raw header r, "none" when every code
\* of r is known
FirstUnknown(r) ==
    IF r.provider \notin Codes(ProviderID) THEN "ProviderDoesNotExist"
    ELSE IF r.content_type \notin Codes(BodyType) THEN "ContentTypeNotSupported"
    ELSE IF r.opcode \notin Codes(Opcode) THEN "OpcodeDoesNotExist"
    ELSE IF r.status \notin Codes(ResponseStatus) THEN "InvalidEncoding"
    ELSE "none"

\* C5: the enumerations are decoded only for a header that passed the
\* version check, in the order provider, content type, opcode, status: the
\* error is that of the first unknown code in this order, and a header is
\* produced only when every code is known, each variant having the code read.
C5_FirstUnknownCodeWins ==
    /\ native # NoRaw
        => res.ok /\ res.val.version_maj = 1 /\ res.val.version_min = 0
    /\ (pc = "done" /\ res.ok)
        => IF FirstUnknown(res.val) # "none"
           THEN native = Err(FirstUnknown(res.val))
           ELSE /\ native.ok
                /\ ProviderID[native.val.provider] = res.val.provider
                /\ BodyType[native.val.content_type] = res.val.content_type
                /\ Opcode[native.val.opcode] = res.val.opcode
                /\ ResponseStatus[native.val.status] = res.val.status

C5_Witness ==
    /\ pc = "done"
    /\ res.ok
    /\ res.val.provider \in Codes(ProviderID)
    /\ res.val.content_type \notin Codes(BodyType)
    /\ res.val.opcode \notin Codes(Opcode)
    /\ res.val.status \notin Codes(ResponseStatus)
    /\ native = Err("ContentTypeNotSupported")

\* C8: when read_from_stream fails with InvalidHeader it has taken at most
\* the 6 bytes of magic number and header size, and every byte after them
\* is still on the stream.
C8_InvalidHeaderTakesSixBytes ==
    (HasRead /\ res = Err("InvalidHeader"))
    => /\ consumed - mark <= 6
       /\ stream = Drop(input, consumed)
       /\ Len(stream) >= Len(Seen) - 6

C8_Witness ==
    /\ pc = "done"
    /\ res = Err("InvalidHeader")
    /\ Len(Seen) = 6 + RESPONSE_HDR_SIZE + 1
    /\ SubSeq(Seen, 1, 4) = <<0, 0, 0, 0>>
    /\ consumed = 6
    /\ stream = Drop(Seen, 6)

\* C9: a stream that starts with the magic number and the right header size
\* and ends before RESPONSE_HDR_SIZE more bytes makes read_from_stream return
\* the I/O failure: no header, not InvalidHeader, not
\* WireProtocolVersionNotSupported.
C9_ShortReadIsIoFailure ==
    (HasRead /\ GoodMagic /\ GoodSize /\ ~FullHeader)
    => /\ res = Err(IoFailure)
       /\ rcvd = <<>>

C9_Witness ==
    /\ pc = "done"
    /\ GoodMagic /\ GoodSize
    /\ Len(Seen) = 6 + RESPONSE_HDR_SIZE - 1
    /\ res = Err(IoFailure)

---------------------------------------------------------------------------
(* Properties of frames written back to back *)

\* length of the first n frames written: headers and bodies
RECURSIVE FramesLen(_)
FramesLen(n) ==
    IF n = 0 THEN 0
    ELSE FramesLen(n - 1) + 6 + RESPONSE_HDR_SIZE + sent[n].body_len

\* C10: a read that gets past the magic/size check on a full header (Ok or
\* WireProtocolVersionNotSupported) has taken exactly 6 + RESPONSE_HDR_SIZE
\* bytes and none after them, whatever body_len says; the headers come back
\* in the order written, and each is returned with the reader standing at the
\* first byte of its body.
C10_HeaderReadStopsAtBody ==
    /\ (HasRead /\ (res.ok \/ res = Err("WireProtocolVersionNotSupported")))
        => /\ consumed - mark = 6 + RESPONSE_HDR_SIZE
           /\ stream = Drop(input, mark + 6 + RESPONSE_HDR_SIZE)
    /\ Len(rcvd) <= Len(sent)
    /\ \A i \in 1..Len(rcvd) :
          /\ rcvd[i].body_len = sent[i].body_len
          /\ try_from_Raw(rcvd[i]) = Ok(sent[i].header)
    /\ pc \in {"convert", "body"}
        => consumed = FramesLen(Len(rcvd)) - sent[Len(rcvd)].body_len
    /\ pc = "read" => consumed = FramesLen(Len(rcvd))

C10_Witness ==
    /\ pc = "read"
    /\ Len(sent) = 2 /\ Len(rcvd) = 2
    /\ sent[1].header.opcode = "ImportKey" /\ sent[1].body_len = 2
    /\ sent[2].header.opcode = "Ping" /\ sent[2].body_len = 1
    /\ rcvd[1].opcode = 6 /\ rcvd[2].opcode = 1
    /\ stream = <<>>
    /\ consumed = Len(input)

---------------------------------------------------------------------------
(* Properties of the import-key conversions *)

IsOperation(v) == "key_name" \in DOMAIN v

\* C6: a native Operation converted to OperationProto and back, directly or
\* through the body the converter serializes, comes back Ok and equal in
\* key_name, attributes and data; a native Result converted to ResultProto
\* and back comes back Ok and equal.
C6_ImportKeyRoundTrip ==
    /\ (kpc = "proto" /\ kin # None) => kproto[1].ok
    /\ (kpc = "rproto" /\ kin # None) => kproto[1].ok
    /\ (kpc = "body" /\ kin # None) => kbody[1].ok
    /\ (kpc = "done" /\ kin # None)
        => /\ kout.ok
           /\ IF IsOperation(kin[1])
              THEN /\ kout.val.key_name = kin[1].key_name
                   /\ kout.val.attributes = kin[1].attributes
                   /\ kout.val.data = kin[1].data
              ELSE kout.val = EmptyResult

C6_Witness ==
    /\ kpc = "done"
    /\ kin # None /\ IsOperation(kin[1])
    /\ kbody # None
    /\ kin[1].key_name = "test name"
    /\ kin[1].data = <<17, 34, 51>>
    /\ kin[1].attributes.key_bits = 1024
    /\ kout = Ok(kin[1])

\* C7: an OperationProto without its attributes sub-message is decoded to
\* Err(InvalidEncoding), whatever its key_name and data: no Operation comes
\* out.
C7_MissingAttributesRejected ==
    (/\ kpc = "done"
     /\ kin = None
     /\ kproto[1].val.attributes = None)
    => kout = Err("InvalidEncoding")

C7_Witness ==
    /\ kpc = "done"
    /\ kin = None /\ kbody = None
    /\ kproto[1].val.attributes = None
    /\ kproto[1].val.key_name = "test name"
    /\ kproto[1].val.data = <<17, 34, 51>>
    /\ kout = Err("InvalidEncoding")

====
